---- MODULE Spec2Model ----
(***************************************************************************)
(* Model of the asynchronous job pipeline of notion-connection-api:        *)
(* the submission surface (app/main.py), the Redis queue and status store  *)
(* (app/redis_queue.py), the worker loop (app/worker.py), the pipeline     *)
(* orchestrator (app/pipeline.py), the stage clients (app/openai_client.py,*)
(* app/notion_client.py) and the retry policy (app/utils.py).              *)
(***************************************************************************)
EXTENDS Integers, Sequences, FiniteSets, TLC

\* ------------------------------------------------------------------ bounds
\* Number of capture_async requests an execution submits.
MaxJobs == 2
\* Largest max_retries and base_delay the retry policy is exercised with.
MaxRetries == 3
MaxBaseDelay == 2
\* Longest text, in pieces, that extract_json_from_text is exercised with.
MaxPieces == 5
\* Number of enqueue_job calls the queue on its own is exercised with.
MaxPushes == 4
\* Largest time-to-live, and the last instant of the clock, that the status
\* store on its own is exercised with.
MaxTtl == 2
MaxClock == 3

\* ------------------------------------------------------- program constants
\* max_retries=2 at every call site of retry_sync; base_delay default 1.0.
StageMaxRetries == 2
DefaultBaseDelay == 1
BackoffFactor == 2

Workers == {"w1", "w2"}
JobIds == 1..MaxJobs

\* Optional values (Python None | value).
None == <<>>
Some(x) == <<x>>
IsSome(o) == o # None
Val(o) == o[1]

\* ------------------------------------------------------------- exceptions
\* An exception is its class, the HTTP status it carries (0: none) and str(e).
Exc(type, status, msg) == [type |-> type, status |-> status, msg |-> msg]
HTTPStatusError(s) == Exc("httpx.HTTPStatusError", s, "http status error")
ConnectError == Exc("httpx.ConnectError", 0, "connect error")
TimeoutException == Exc("httpx.TimeoutException", 0, "timeout")
ReadError == Exc("httpx.ReadError", 0, "read error")
APIConnectionError == Exc("openai.APIConnectionError", 0, "Connection error.")
StageAValueError ==
    Exc("ValueError", 0, "Could not parse Stage A output as valid JSON after retry")
StageBValueError == Exc("ValueError", 0, "Could not parse Stage B output as valid JSON")
ValidationError == Exc("pydantic.ValidationError", 0, "validation error")
RedisError == Exc("redis.ConnectionError", 0, "redis connection error")

\* str(e) as worker.py line 67 stores it.
StrOf(e) == e.msg

\* Variant: a delay that grows linearly with the attempt.
ExponentialBackoffDouble(base, factor, attempt) == base * factor * attempt
\* utils.py exponential_backoff: base * factor ** attempt.
exponential_backoff(base, factor, attempt) == base * factor ^ attempt

\* Variant: a classifier for which status 500 is permanent.
IsTransientErrorStrict(exc) ==
    IF exc.type = "httpx.HTTPStatusError"
    THEN exc.status > 500
    ELSE exc.type \in {"httpx.ConnectError", "httpx.TimeoutException", "httpx.ReadError"}
\* utils.py is_transient_error.
is_transient_error(exc) ==
    IF exc.type = "httpx.HTTPStatusError"
    THEN exc.status >= 500
    ELSE exc.type \in {"httpx.ConnectError", "httpx.TimeoutException", "httpx.ReadError"}

\* ----------------------------------------------------------- retry policy
\* The state of one call of the retry policy: which of the two functions runs
\* (mode), fn's outcome at each call (None: it returns, Some(e): it raises e),
\* the loop variable, the calls made, the delays slept, and how the call ended.
RetryStart(mode, outs, max_retries, base_delay) ==
    [mode |-> mode, outs |-> outs, max_retries |-> max_retries,
     base_delay |-> base_delay, attempt |-> 0, calls |-> 0, sleeps |-> <<>>,
     state |-> "run", exc |-> None]

\* The is_transient argument of a call (utils.py lines 73 and 97): the default
\* is_transient_error, or a classifier the caller passes, named by st.classifier.
is_transient(st, e) ==
    IF "classifier" \notin DOMAIN st THEN is_transient_error(e)
    ELSE CASE st.classifier = "is_transient_error" -> is_transient_error(e)
           [] st.classifier = "always" -> TRUE
           [] st.classifier = "never" -> FALSE

\* utils.py retry_sync lines 102-112: one pass through the body of the for
\* loop; the delay is slept with time.sleep.
retry_sync_iter(st) ==
    LET o == st.outs[st.attempt] IN
    IF o = None
    THEN [st EXCEPT !.calls = @ + 1, !.state = "returned"]
    ELSE IF st.attempt < st.max_retries /\ is_transient(st, Val(o))
         THEN [st EXCEPT !.calls = @ + 1,
                         !.sleeps = Append(@, exponential_backoff(st.base_delay, BackoffFactor, st.attempt)),
                         !.attempt = @ + 1]
         ELSE [st EXCEPT !.calls = @ + 1, !.state = "raised", !.exc = o]

\* Variant: an asynchronous pass that retries without a backoff sleep.
RetryAsyncNoSleep(st) ==
    LET o == st.outs[st.attempt] IN
    IF o = None
    THEN [st EXCEPT !.calls = @ + 1, !.state = "returned"]
    ELSE IF st.attempt < st.max_retries /\ is_transient(st, Val(o))
         THEN [st EXCEPT !.calls = @ + 1, !.attempt = @ + 1]
         ELSE [st EXCEPT !.calls = @ + 1, !.state = "raised", !.exc = o]
\* utils.py retry_async lines 78-88: the same pass, awaiting fn and the sleep.
retry_async_iter(st) ==
    LET o == st.outs[st.attempt] IN
    IF o = None
    THEN [st EXCEPT !.calls = @ + 1, !.state = "returned"]
    ELSE IF st.attempt < st.max_retries /\ is_transient(st, Val(o))
         THEN [st EXCEPT !.calls = @ + 1,
                         !.sleeps = Append(@, exponential_backoff(st.base_delay, BackoffFactor, st.attempt)),
                         !.attempt = @ + 1]
         ELSE [st EXCEPT !.calls = @ + 1, !.state = "raised", !.exc = o]

RECURSIVE RetryRun(_)
RetryRun(st) == IF st.state # "run" THEN st ELSE RetryRun(retry_sync_iter(st))

\* retry_sync(fn, max_retries=..., base_delay=...) run to its end.
retry_sync(outs, max_retries, base_delay) ==
    RetryRun(RetryStart("sync", outs, max_retries, base_delay))

\* ------------------------------------------------- generative output, plans
\* The text of a Responses API reply: empty, or text from which
\* extract_json_from_text recovers a JSON value or nothing.
EmptyText == [empty |-> TRUE, json |-> None]
GarbageText == [empty |-> FALSE, json |-> None]
JsonText(d) == [empty |-> FALSE, json |-> Some(d)]

\* utils.py extract_json_from_text, by its result on the text.
extract_json_from_text(text) == text.json

\* JSON objects a planning reply may hold: the flag with the prompt absent,
\* empty or a question; and one that lacks the required flag.
StageAData ==
    { [need_deep_research |-> FALSE, notion_page_title |-> "t", summary |-> "s"],
      [need_deep_research |-> TRUE, notion_page_title |-> "t", summary |-> "s"],
      [need_deep_research |-> TRUE, deep_research_prompt |-> Some(""),
       notion_page_title |-> "t", summary |-> "s"],
      [need_deep_research |-> TRUE, deep_research_prompt |-> Some("q"),
       notion_page_title |-> "t", summary |-> "s"],
      [notion_page_title |-> "t", summary |-> "s"] }
StageATexts == {EmptyText, GarbageText} \cup {JsonText(d) : d \in StageAData}

\* models.py StageAOutput.model_validate: required fields present, optional
\* fields filled with their defaults. None when validation raises.
StageAOutput(data) ==
    IF {"need_deep_research", "notion_page_title", "summary"} \subseteq DOMAIN data
    THEN Some([need_deep_research |-> data.need_deep_research,
               deep_research_prompt |->
                   IF "deep_research_prompt" \in DOMAIN data
                   THEN data.deep_research_prompt ELSE None,
               notion_page_title |-> data.notion_page_title,
               summary |-> data.summary])
    ELSE None

\* openai_client.py _parse_stage_a.
_parse_stage_a(text) ==
    IF text.empty THEN None
    ELSE LET data == extract_json_from_text(text) IN
         IF data = None THEN None ELSE StageAOutput(Val(data))

\* JSON objects a research reply may hold, and one lacking the required field.
StageBData ==
    { [research_summary |-> "r1"],
      [sources |-> <<"u">>] }
StageBTexts == {GarbageText} \cup {JsonText(d) : d \in StageBData}

\* models.py StageBOutput.model_validate.
StageBOutput(data) ==
    IF "research_summary" \in DOMAIN data
    THEN Some([research_summary |-> data.research_summary,
               key_takeaways |-> IF "key_takeaways" \in DOMAIN data
                                 THEN data.key_takeaways ELSE <<>>,
               sources |-> IF "sources" \in DOMAIN data THEN data.sources ELSE <<>>])
    ELSE None

\* pydantic model_dump(): the model's fields as a dict.
model_dump(m) == m

\* Python truthiness of an optional string: not None and not "".
Truthy(o) == IsSome(o) /\ Val(o) # ""

\* Variant: a gate that looks at the flag alone.
GateAlways(plan) == plan.need_deep_research
\* pipeline.py line 39: the gate of the research stage.
Gate(plan) == plan.need_deep_research /\ Truthy(plan.deep_research_prompt)

\* ------------------------------------------------------------ commit stage
\* Outcomes of one POST to the Notion pages endpoint (None: a 2xx reply).
NotionOutcomes == {None, Some(HTTPStatusError(503)), Some(HTTPStatusError(400))}
\* Outcomes of one call of the OpenAI client.
OpenAIOutcomes == {None, Some(APIConnectionError)}

\* Reply bodies of a created page; ids and urls are sequences of characters.
NotionReplies ==
    { [id |-> <<"a", "-", "b">>, url |-> <<"https://x/abc">>],
      [id |-> <<"a", "-", "b">>] }

\* notion_client.py lines 118-121.
PageOf(data) ==
    LET page_id == IF "id" \in DOMAIN data THEN data.id ELSE <<>>
        url == IF "url" \in DOMAIN data THEN data.url ELSE <<>>
    IN [page_id |-> page_id,
        page_url |-> IF url # <<>> THEN url
                     ELSE <<"https://www.notion.so/">>
                          \o SelectSeq(page_id, LAMBDA c : c # "-")]

\* ---------------------------------------------------------- status records
\* utils.py utc_now_iso8601: an instant; the model does not tell instants apart.
utc_now_iso8601 == "ts"

Payloads == {[task_name |-> "n", task_content |-> "c"]}

\* main.py lines 95-99.
queued_status(payload) ==
    [status |-> "queued", created_at |-> utc_now_iso8601, payload |-> payload]
\* Variant: a worker that writes the Queued record again.
RunningStatusAsQueued(payload) ==
    [status |-> "queued", created_at |-> utc_now_iso8601, payload |-> payload]
\* worker.py lines 53-57.
running_status(payload) ==
    [status |-> "running", started_at |-> utc_now_iso8601, payload |-> payload]
\* worker.py lines 64-68.
failed_status(e) ==
    [status |-> "failed", finished_at |-> utc_now_iso8601, error |-> StrOf(e)]
\* Variant: a Succeeded record that leaves the research output out.
SucceededNoResearch(page_pair, plan_dict, deep_research_dict) ==
    [status |-> "succeeded", finished_at |-> utc_now_iso8601,
     notion |-> [page_id |-> page_pair.page_id, page_url |-> page_pair.page_url],
     plan |-> plan_dict, deep_research |-> None]
\* pipeline.py lines 47-54.
succeeded_status(page, plan_dict, deep_research_dict) ==
    [status |-> "succeeded", finished_at |-> utc_now_iso8601,
     notion |-> [page_id |-> page.page_id, page_url |-> page.page_url],
     plan |-> plan_dict, deep_research |-> deep_research_dict]

\* ------------------------------------------------------------------- state
VARIABLES
    nextJob,    \* job ids handed out so far by capture_async (uuid4: fresh)
    req,        \* capture_async requests between the Queued write and the push
    queue,      \* the Redis list queue:jobs, head first
    status,     \* the Redis keys job:{job_id}: None or Some(record)
    pc,         \* each worker's position in main()
    shutdown,   \* each worker process's _shutdown flag
    cur,        \* the (job_id, payload) a worker's blpop_job returned
    text,       \* run_stage_a_sync: the raw text awaiting the repair request
    plan,       \* run_pipeline: plan
    research,   \* run_pipeline: deep_research
    page,       \* run_pipeline: (page_id, page_url)
    exc,        \* the exception caught at worker.py line 62
    log,        \* history: the stage events of the job a worker is processing
    writes,     \* history: the statuses written under each job id, in order
    deliveries, \* history: how many times blpop_job returned each job's message
    rt,         \* the state of a retry_sync call on its own
    ex,         \* the state of an extract_json_from_text call on its own
    fifo,       \* the queue on its own: the messages pushed and the pops made
    store       \* the status store on its own: keys, expiry times and a clock

vars == <<nextJob, req, queue, status, pc, shutdown, cur, text, plan, research,
          page, exc, log, writes, deliveries, rt, ex, fifo, store>>
\* The state of the job pipeline.
main == <<nextJob, req, queue, status, pc, shutdown, cur, text, plan, research,
          page, exc, log, writes, deliveries>>
locals == <<text, plan, research, page, exc>>
\* The calls examined on their own, which the pipeline leaves alone.
side == <<rt, ex, fifo, store>>

RetryIdle == [state |-> "idle"]
ExtractIdle == [state |-> "idle"]
FifoIdle == [state |-> "idle"]
StoreIdle == [state |-> "idle"]

MainInit ==
    /\ nextJob = 0
    /\ req = {}
    /\ queue = <<>>
    /\ status = [j \in JobIds |-> None]
    /\ pc = [w \in Workers |-> "top"]
    /\ shutdown = [w \in Workers |-> FALSE]
    /\ cur = [w \in Workers |-> None]
    /\ text = [w \in Workers |-> None]
    /\ plan = [w \in Workers |-> None]
    /\ research = [w \in Workers |-> None]
    /\ page = [w \in Workers |-> None]
    /\ exc = [w \in Workers |-> None]
    /\ log = [w \in Workers |-> <<>>]
    /\ writes = [j \in JobIds |-> <<>>]
    /\ deliveries = [j \in JobIds |-> 0]

Init ==
    /\ MainInit
    /\ rt = RetryIdle /\ ex = ExtractIdle /\ fifo = FifoIdle /\ store = StoreIdle

\* ------------------------------------------------- queue and status store
\* redis_queue.py set_job_status / set_job_status_sync: SET key data EX ttl
\* replaces the whole record. A write that raises stores nothing.
StoreSet(job_id, status_data) == [status EXCEPT ![job_id] = Some(status_data)]
WriteLog(job_id, status_data) ==
    [writes EXCEPT ![job_id] = Append(@, status_data.status)]

\* Variant: a push at the head of the list (LPUSH).
EnqueueAtHead(q, job_id, payload) ==
    <<[job_id |-> job_id, payload |-> payload]>> \o q

\* redis_queue.py enqueue_job: RPUSH of the message {job_id, payload}.
enqueue_job(q, job_id, payload) ==
    Append(q, [job_id |-> job_id, payload |-> payload])

\* Variant: a pop that returns the head and leaves it in the list.
BlpopLeaveHead(q) == q
\* Redis BLPOP on a non-empty list: the head is returned and removed at once.
BlpopRest(q) == Tail(q)

Event(ev, arg) == [ev |-> ev, arg |-> arg]
Logged(w, evs) == [log EXCEPT ![w] = @ \o evs]

\* ------------------------------------------------------ submission surface
\* Variant: a capture_async that goes to the push without the Queued write.
CaptureAsyncPushUnrecorded ==
    /\ nextJob < MaxJobs
    /\ \E payload \in Payloads :
         LET job_id == nextJob + 1 IN
         /\ nextJob' = job_id
         /\ req' = req \cup {[job_id |-> job_id, payload |-> payload]}
    /\ UNCHANGED <<queue, status, writes, pc, shutdown, cur, locals, log,
                   deliveries, side>>
\* main.py capture_async lines 91-100: a fresh job id, then the Queued write.
CaptureAsyncSetQueued ==
    /\ nextJob < MaxJobs
    /\ \E payload \in Payloads :
         LET job_id == nextJob + 1 IN
         /\ nextJob' = job_id
         /\ status' = StoreSet(job_id, queued_status(payload))
         /\ writes' = WriteLog(job_id, queued_status(payload))
         /\ req' = req \cup {[job_id |-> job_id, payload |-> payload]}
    /\ UNCHANGED <<queue, pc, shutdown, cur, locals, log, deliveries, side>>

\* main.py capture_async line 103: the push.
CaptureAsyncEnqueue ==
    /\ \E r \in req :
         /\ req' = req \ {r}
         /\ queue' = enqueue_job(queue, r.job_id, r.payload)
    /\ UNCHANGED <<nextJob, status, pc, shutdown, cur, locals, log, writes,
                   deliveries, side>>

\* ------------------------------------------------------------- worker loop
JobOf(w) == Val(cur[w]).job_id
PayloadOf(w) == Val(cur[w]).payload
Alive(w) == pc[w] \notin {"stopped", "raised", "crashed"}

\* A worker's job and run_pipeline's locals are dropped: the iteration is
\* over, or the process is gone.
Forget(w) ==
    /\ cur' = [cur EXCEPT ![w] = None]
    /\ text' = [text EXCEPT ![w] = None]
    /\ plan' = [plan EXCEPT ![w] = None]
    /\ research' = [research EXCEPT ![w] = None]
    /\ page' = [page EXCEPT ![w] = None]
    /\ exc' = [exc EXCEPT ![w] = None]
    /\ log' = [log EXCEPT ![w] = <<>>]

\* An exception leaves main(): the worker process ends.
Leaves(w) ==
    /\ pc' = [pc EXCEPT ![w] = "raised"]
    /\ Forget(w)

\* Variant: a handler that ends the loop where it stands.
HandleSignalInterrupts(w) ==
    /\ Alive(w)
    /\ ~shutdown[w]
    /\ shutdown' = [shutdown EXCEPT ![w] = TRUE]
    /\ pc' = [pc EXCEPT ![w] = "stopped"]
    /\ Forget(w)
    /\ UNCHANGED <<nextJob, req, queue, status, writes, deliveries, side>>

\* worker.py _handle_signal: SIGTERM or SIGINT delivered to a worker process.
_handle_signal(w) ==
    /\ Alive(w)
    /\ ~shutdown[w]
    /\ shutdown' = [shutdown EXCEPT ![w] = TRUE]
    /\ UNCHANGED <<nextJob, req, queue, status, pc, cur, locals, log, writes,
                   deliveries, side>>

\* worker.py line 44: the loop condition, examined between iterations.
WorkerLoopTop(w) ==
    /\ pc[w] = "top"
    /\ pc' = [pc EXCEPT ![w] = IF shutdown[w] THEN "stopped" ELSE "blpop"]
    /\ UNCHANGED <<nextJob, req, queue, status, shutdown, cur, locals, log,
                   writes, deliveries, side>>

\* A queue message is the JSON object enqueue_job wrote, a record here, or
\* text from another producer: a record whose field json tells what
\* json.loads makes of it ("invalid": it raises JSONDecodeError; "array": a
\* JSON value that is not an object).
WellFormed(msg) == {"job_id", "payload"} \subseteq DOMAIN msg
TypeError == Exc("TypeError", 0, "list indices must be integers or slices, not str")

\* redis_queue.py blpop_job lines 70-76 on a popped message: the pair it
\* returns, None after the errors line 74 catches, or the error it raises.
ParseMessage(msg) ==
    IF "json" \in DOMAIN msg
    THEN IF msg.json = "invalid"
         THEN [result |-> None, raised |-> None]
         ELSE [result |-> None, raised |-> Some(TypeError)]
    ELSE IF WellFormed(msg)
         THEN [result |-> Some(msg), raised |-> None]
         ELSE [result |-> None, raised |-> None]

\* worker.py lines 45-49 with redis_queue.py blpop_job: the head message is
\* removed and returned, or the pop times out on an empty list.
blpop_job(w) ==
    /\ pc[w] = "blpop"
    /\ \/ /\ queue # <<>>
          /\ WellFormed(Head(queue))
          /\ LET msg == Head(queue) IN
             /\ queue' = BlpopRest(queue)
             /\ cur' = [cur EXCEPT ![w] = Some(msg)]
             /\ deliveries' = [deliveries EXCEPT ![msg.job_id] = @ + 1]
             /\ pc' = [pc EXCEPT ![w] = "set_running"]
       \/ /\ queue = <<>>
          /\ pc' = [pc EXCEPT ![w] = "top"]
          /\ UNCHANGED <<queue, cur, deliveries>>
    /\ UNCHANGED <<nextJob, req, status, shutdown, locals, log, writes, side>>

\* redis_queue.py blpop_job lines 67-76 with worker.py lines 45-47, on a head
\* message that is not what enqueue_job wrote: it is removed; blpop_job
\* returns None and the loop continues, or the error blpop_job raises leaves
\* main(), the call being outside the try block.
blpop_job_invalid(w) ==
    /\ pc[w] = "blpop"
    /\ queue # <<>>
    /\ ~WellFormed(Head(queue))
    /\ queue' = BlpopRest(queue)
    /\ IF ParseMessage(Head(queue)).raised # None
       THEN Leaves(w)
       ELSE /\ pc' = [pc EXCEPT ![w] = "top"]
            /\ UNCHANGED <<cur, locals, log>>
    /\ UNCHANGED <<nextJob, req, status, shutdown, writes, deliveries, side>>

\* worker.py lines 52-58: the Running write, outside the try block: an error
\* it raises leaves main().
WorkerSetRunningBody(w, record) ==
    /\ pc[w] = "set_running"
    /\ \E ok \in BOOLEAN :
         IF ok
         THEN /\ status' = StoreSet(JobOf(w), record)
              /\ writes' = WriteLog(JobOf(w), record)
              /\ pc' = [pc EXCEPT ![w] = "stage_a"]
              /\ UNCHANGED <<cur, locals, log>>
         ELSE /\ Leaves(w)
              /\ UNCHANGED <<status, writes>>
    /\ UNCHANGED <<nextJob, req, queue, shutdown, deliveries, side>>
\* Variant of the Running write, and the write itself.
WorkerSetRunningAsQueued(w) ==
    WorkerSetRunningBody(w, RunningStatusAsQueued(PayloadOf(w)))
WorkerSetRunning(w) == WorkerSetRunningBody(w, running_status(PayloadOf(w)))

\* Variant: an except block that ends the iteration without the Failed write.
WorkerSkipFailed(w, record) ==
    /\ pc[w] = "set_failed"
    /\ pc' = [pc EXCEPT ![w] = "end"]
    /\ UNCHANGED <<nextJob, req, queue, status, shutdown, cur, locals, log,
                   writes, deliveries, side>>
\* worker.py lines 62-69: the Failed write in the except block. An error the
\* write raises is raised inside the handler and leaves main().
WorkerSetFailedBody(w, record) ==
    /\ pc[w] = "set_failed"
    /\ \E ok \in BOOLEAN :
         IF ok
         THEN /\ status' = StoreSet(JobOf(w), record)
              /\ writes' = WriteLog(JobOf(w), record)
              /\ pc' = [pc EXCEPT ![w] = "end"]
              /\ UNCHANGED <<cur, locals, log>>
         ELSE /\ Leaves(w)
              /\ UNCHANGED <<status, writes>>
    /\ UNCHANGED <<nextJob, req, queue, shutdown, deliveries, side>>
WorkerSetFailed(w) == WorkerSetFailedBody(w, failed_status(Val(exc[w])))

\* worker.py line 44 after lines 61 or 69: the iteration is over and the loop
\* goes back to its condition.
WorkerLoopBack(w) ==
    /\ pc[w] = "end"
    /\ pc' = [pc EXCEPT ![w] = "top"]
    /\ Forget(w)
    /\ UNCHANGED <<nextJob, req, queue, status, shutdown, writes, deliveries, side>>

\* A worker process killed at any point of its run.
Crash(w) ==
    /\ Alive(w)
    /\ pc' = [pc EXCEPT ![w] = "crashed"]
    /\ Forget(w)
    /\ UNCHANGED <<nextJob, req, queue, status, shutdown, writes, deliveries, side>>

\* ------------------------------------------------------------ run_pipeline
\* Variant: an orchestrator that wraps the exception of a stage in its own.
RaisedWrapped(w, e, evs) ==
    /\ pc' = [pc EXCEPT ![w] = "set_failed"]
    /\ exc' = [exc EXCEPT ![w] = Some(Exc("RuntimeError", 0, "pipeline failed"))]
    /\ log' = Logged(w, evs)

\* An exception leaving run_pipeline: caught at worker.py line 62.
Raised(w, e, evs) ==
    /\ pc' = [pc EXCEPT ![w] = "set_failed"]
    /\ exc' = [exc EXCEPT ![w] = Some(e)]
    /\ log' = Logged(w, evs)

\* Variant: an orchestrator that goes to the commit stage whatever the gate.
PlannedCommitFirst(w, p, evs, gate) ==
    /\ plan' = [plan EXCEPT ![w] = Some(p)]
    /\ pc' = [pc EXCEPT ![w] = "commit"]
    /\ log' = Logged(w, evs \o <<Event("plan_ok", Some(p))>>
                        \o (IF gate THEN <<>> ELSE <<Event("research_skipped", None)>>))
    /\ UNCHANGED exc
\* pipeline.py lines 33-41: the plan is returned and the gate is decided.
Planned(w, p, evs, gate) ==
    /\ plan' = [plan EXCEPT ![w] = Some(p)]
    /\ pc' = [pc EXCEPT ![w] = IF gate THEN "stage_b" ELSE "commit"]
    /\ log' = Logged(w, evs \o <<Event("plan_ok", Some(p))>>
                        \o (IF gate THEN <<>> ELSE <<Event("research_skipped", None)>>))
    /\ UNCHANGED exc

\* openai_client.py run_stage_a_sync lines 170-191: the planning call under
\* retry_sync, and the parse of its text.
RunStageACall(w) ==
    /\ pc[w] = "stage_a"
    /\ \E outs \in [0..StageMaxRetries -> OpenAIOutcomes], t \in StageATexts :
         LET r == retry_sync(outs, StageMaxRetries, DefaultBaseDelay)
             start == <<Event("plan_start", None)>>
             parsed == _parse_stage_a(t)
         IN IF r.state = "raised"
            THEN /\ Raised(w, Val(r.exc), start \o <<Event("plan_err", r.exc)>>)
                 /\ UNCHANGED <<text, plan>>
            ELSE IF parsed # None
            THEN /\ Planned(w, Val(parsed), start, Gate(Val(parsed)))
                 /\ UNCHANGED text
            ELSE /\ pc' = [pc EXCEPT ![w] = "repair"]
                 /\ text' = [text EXCEPT ![w] = Some(t)]
                 /\ log' = Logged(w, start)
                 /\ UNCHANGED <<plan, exc>>
    /\ UNCHANGED <<nextJob, req, queue, status, shutdown, cur, research, page,
                   writes, deliveries, side>>

\* openai_client.py run_stage_a_sync lines 193-205: one repair request, made
\* outside retry_sync, and the parse of the repaired text.
RunStageARepair(w) ==
    /\ pc[w] = "repair"
    /\ \E o \in OpenAIOutcomes, t \in StageATexts :
         LET start == <<Event("repair", None)>>
             parsed == _parse_stage_a(t)
         IN IF o # None
            THEN /\ Raised(w, Val(o), start \o <<Event("plan_err", o)>>)
                 /\ UNCHANGED plan
            ELSE IF parsed # None
            THEN Planned(w, Val(parsed), start, Gate(Val(parsed)))
            ELSE /\ Raised(w, StageAValueError, start \o <<Event("plan_err", Some(StageAValueError))>>)
                 /\ UNCHANGED plan
    /\ text' = [text EXCEPT ![w] = None]
    /\ UNCHANGED <<nextJob, req, queue, status, shutdown, cur, research, page,
                   writes, deliveries, side>>

\* pipeline.py lines 39-41 with openai_client.py run_stage_b_sync: the
\* research call under retry_sync on the plan's prompt, the extraction and
\* the validation of its text. An error goes to onError.
RunStageBBody(w, prompt, onError) ==
    /\ pc[w] = "stage_b"
    /\ \E outs \in [0..StageMaxRetries -> OpenAIOutcomes], t \in StageBTexts :
         LET r == retry_sync(outs, StageMaxRetries, DefaultBaseDelay)
             start == <<Event("research_start", prompt)>>
             data == extract_json_from_text(t)
             e == IF r.state = "raised" THEN r.exc
                  ELSE IF data = None THEN Some(StageBValueError)
                  ELSE IF StageBOutput(Val(data)) = None THEN Some(ValidationError)
                  ELSE None
         IN IF e # None
            THEN /\ pc' = [pc EXCEPT ![w] = onError]
                 /\ exc' = [exc EXCEPT ![w] = e]
                 /\ log' = Logged(w, start \o <<Event("research_err", e)>>)
                 /\ UNCHANGED research
            ELSE /\ research' = [research EXCEPT ![w] = StageBOutput(Val(data))]
                 /\ pc' = [pc EXCEPT ![w] = "commit"]
                 /\ log' = Logged(w, start \o <<Event("research_ok", StageBOutput(Val(data)))>>)
                 /\ UNCHANGED exc
    /\ UNCHANGED <<nextJob, req, queue, status, shutdown, cur, text, plan, page,
                   writes, deliveries, side>>
\* Variants: a research failure that falls through to the commit stage, and
\* a research call on the task's text instead of the plan's prompt.
RunStageBCommitAnyway(w) ==
    RunStageBBody(w, Val(plan[w]).deep_research_prompt, "commit")
RunStageBWrongPrompt(w) ==
    RunStageBBody(w, Some(PayloadOf(w).task_content), "set_failed")
\* pipeline.py lines 39-41.
RunStageB(w) ==
    RunStageBBody(w, Val(plan[w]).deep_research_prompt, "set_failed")

\* pipeline.py line 44 with notion_client.py create_page: the POST under
\* retry_sync, and the page id and url read from the reply.
CreatePageBody(w, onError) ==
    /\ pc[w] = "commit"
    /\ \E outs \in [0..StageMaxRetries -> NotionOutcomes], reply \in NotionReplies :
         LET r == retry_sync(outs, StageMaxRetries, DefaultBaseDelay)
             start == <<Event("commit_start", None)>>
         IN IF r.state = "raised"
            THEN /\ pc' = [pc EXCEPT ![w] = onError]
                 /\ exc' = [exc EXCEPT ![w] = r.exc]
                 /\ log' = Logged(w, start \o <<Event("commit_err", r.exc)>>)
                 /\ page' = [page EXCEPT ![w] =
                                IF onError = "set_failed" THEN None ELSE Some(PageOf(reply))]
            ELSE /\ page' = [page EXCEPT ![w] = Some(PageOf(reply))]
                 /\ pc' = [pc EXCEPT ![w] = "set_succeeded"]
                 /\ log' = Logged(w, start \o <<Event("commit_ok", Some(PageOf(reply)))>>)
                 /\ UNCHANGED exc
    /\ UNCHANGED <<nextJob, req, queue, status, shutdown, cur, text, plan,
                   research, writes, deliveries, side>>
\* Variant: a commit failure that is swallowed; then pipeline.py line 44.
CreatePageSwallow(w) == CreatePageBody(w, "set_succeeded")
CreatePage(w) == CreatePageBody(w, "set_failed")

\* Variant: a run_pipeline that raises after its Succeeded write was stored.
SetSucceededThenRaise(w, record) ==
    /\ pc[w] = "set_succeeded"
    /\ status' = StoreSet(JobOf(w), record)
    /\ writes' = WriteLog(JobOf(w), record)
    /\ Raised(w, RedisError, <<Event("record_err", Some(RedisError))>>)
    /\ UNCHANGED <<nextJob, req, queue, shutdown, cur, text, plan, research, page,
                   deliveries, side>>
\* pipeline.py lines 46-56: the Succeeded write, after which run_pipeline
\* returns; an error the write raises leaves run_pipeline like any other.
SetSucceededBody(w, record) ==
    /\ pc[w] = "set_succeeded"
    /\ \E ok \in BOOLEAN :
         IF ok
         THEN /\ status' = StoreSet(JobOf(w), record)
              /\ writes' = WriteLog(JobOf(w), record)
              /\ pc' = [pc EXCEPT ![w] = "end"]
              /\ UNCHANGED <<exc, log>>
         ELSE /\ Raised(w, RedisError, <<Event("record_err", Some(RedisError))>>)
              /\ UNCHANGED <<status, writes>>
    /\ UNCHANGED <<nextJob, req, queue, shutdown, cur, text, plan, research, page,
                   deliveries, side>>
DumpOpt(o) == IF o = None THEN None ELSE Some(model_dump(Val(o)))
SetSucceeded(w) ==
    SetSucceededBody(w, succeeded_status(Val(page[w]), model_dump(Val(plan[w])),
                                         DumpOpt(research[w])))

\* ---------------------------------------------------------- specification
Next ==
    \/ CaptureAsyncSetQueued
    \/ CaptureAsyncEnqueue
    \/ \E w \in Workers : _handle_signal(w)
    \/ \E w \in Workers : WorkerLoopTop(w)
    \/ \E w \in Workers : blpop_job(w)
    \/ \E w \in Workers : WorkerSetRunning(w)
    \/ \E w \in Workers : RunStageACall(w)
    \/ \E w \in Workers : RunStageARepair(w)
    \/ \E w \in Workers : RunStageB(w)
    \/ \E w \in Workers : CreatePage(w)
    \/ \E w \in Workers : SetSucceeded(w)
    \/ \E w \in Workers : WorkerSetFailed(w)
    \/ \E w \in Workers : WorkerLoopBack(w)
    \/ \E w \in Workers : Crash(w)

Spec == Init /\ [][Next]_vars

\* ------------------------------------------------------ the job lifecycle
Holding(w) == cur[w] # None
LogHas(w, ev) == \E i \in DOMAIN log[w] : log[w][i].ev = ev
Count(w, ev) == Cardinality({i \in DOMAIN log[w] : log[w][i].ev = ev})
Last(seq) == seq[Len(seq)]
\* The worker has finished its iteration for the job it holds: the terminal
\* write was made and the loop is about to go back to its condition.
Finished(w) == pc[w] = "end"
RecordOf(w) == Val(status[JobOf(w)])
\* The plan carries the flag and a non-empty research prompt.
Gated(p) ==
    /\ p.need_deep_research
    /\ p.deep_research_prompt # None
    /\ p.deep_research_prompt # Some("")

C2_AtMostOneDelivery ==
    /\ \A j \in JobIds : deliveries[j] <= 1
    /\ \A w, v \in Workers :
         (w # v /\ Holding(w) /\ Holding(v)) => JobOf(w) # JobOf(v)
C2_Witness ==
    \E w, v \in Workers :
        /\ w # v
        /\ pc[w] = "stage_a" /\ pc[v] = "stage_a"
        /\ deliveries[JobOf(w)] = 1 /\ deliveries[JobOf(v)] = 1

\* C3: when processing a popped job raises an error, the worker writes a
\* Failed record and goes on to its next iteration: a worker that has caught
\* a job's error (and is not killed) next completes the Failed write and
\* reaches the end of the iteration; the error never ends the loop of main().
C3_FailedJobNeverEndsLoop ==
    [][\A w \in Workers :
          pc[w] = "set_failed" => pc'[w] \in {"set_failed", "end", "crashed"}]_vars

\* create_page raised an HTTP status error below 500 for the job w holds.
CommitRaisedPermanent(w) ==
    \E i \in DOMAIN log[w] :
        /\ log[w][i].ev = "commit_err"
        /\ Val(log[w][i].arg).type = "httpx.HTTPStatusError"
        /\ Val(log[w][i].arg).status < 500

\* C4: a job whose commit stage raised a permanent error never has a
\* Succeeded record written, and when the worker's iteration for it is over
\* the status store holds a Failed record for it with finished_at set and
\* the error's text.
C4_CommitFailureYieldsFailed ==
    \A w \in Workers :
        (Holding(w) /\ CommitRaisedPermanent(w)) =>
            /\ \A i \in DOMAIN writes[JobOf(w)] : writes[JobOf(w)][i] # "succeeded"
            /\ Finished(w) =>
                 /\ status[JobOf(w)] # None
                 /\ RecordOf(w).status = "failed"
                 /\ "finished_at" \in DOMAIN RecordOf(w)
                 /\ RecordOf(w).finished_at = utc_now_iso8601
                 /\ RecordOf(w).error = StrOf(HTTPStatusError(400))
C4_Witness ==
    \E w \in Workers :
        /\ Holding(w) /\ CommitRaisedPermanent(w) /\ Finished(w)
        /\ RecordOf(w).status = "failed"

\* C5: no partial success. A Succeeded record is written only in a run in
\* which planning, the research stage when it is gated in, and the commit
\* stage have all returned; when the research stage fails the commit stage
\* is not invoked, no Succeeded record is written, and the job's record at
\* the end of the iteration is Failed.
C5_NoPartialSuccess ==
    \A w \in Workers :
        Holding(w) =>
            /\ (Last(writes[JobOf(w)]) = "succeeded") =>
                 /\ LogHas(w, "plan_ok") /\ LogHas(w, "commit_ok")
                 /\ Gated(Val(plan[w])) => LogHas(w, "research_ok")
                 /\ ~LogHas(w, "plan_err") /\ ~LogHas(w, "research_err")
                 /\ ~LogHas(w, "commit_err")
            /\ LogHas(w, "research_err") =>
                 /\ ~LogHas(w, "commit_start")
                 /\ Last(writes[JobOf(w)]) # "succeeded"
                 /\ Finished(w) => RecordOf(w).status = "failed"
C5_Witness ==
    \E w \in Workers :
        /\ Holding(w) /\ LogHas(w, "research_err") /\ Finished(w)
        /\ RecordOf(w).status = "failed"

\* run_pipeline has entered, or is entering, run_stage_b_sync.
ResearchInvoked(w) == pc[w] = "stage_b" \/ LogHas(w, "research_start")

\* C6: once run_pipeline has its plan, the research stage is invoked if and
\* only if the plan has the flag true and a non-empty prompt; a Succeeded
\* record's deep_research is null exactly when the research stage was not
\* invoked, and non-null only when it ran and returned.
C6_ResearchGate ==
    \A w \in Workers :
        (Holding(w) /\ plan[w] # None) =>
            /\ ResearchInvoked(w) <=> Gated(Val(plan[w]))
            /\ (Finished(w) /\ RecordOf(w).status = "succeeded") =>
                 /\ (RecordOf(w).deep_research = None) <=> ~LogHas(w, "research_start")
                 /\ (RecordOf(w).deep_research # None) => LogHas(w, "research_ok")
C6_Witness ==
    \E w \in Workers :
        /\ Holding(w) /\ Finished(w) /\ RecordOf(w).status = "succeeded"
        /\ Val(plan[w]).need_deep_research
        /\ Val(plan[w]).deep_research_prompt = Some("")
        /\ RecordOf(w).deep_research = None
        /\ ~LogHas(w, "research_start")

\* C7: with the flag true and a non-empty prompt, the research stage is
\* invoked exactly once for the job, with exactly the plan's prompt, and the
\* output it returned is the deep_research of the Succeeded record.
C7_ResearchOnceWithPrompt ==
    \A w \in Workers :
        Holding(w) =>
            /\ Count(w, "research_start") <= 1
            /\ \A i \in DOMAIN log[w] :
                 log[w][i].ev = "research_start" =>
                     log[w][i].arg = Val(plan[w]).deep_research_prompt
            /\ (Finished(w) /\ RecordOf(w).status = "succeeded" /\ Gated(Val(plan[w]))) =>
                 /\ Count(w, "research_start") = 1
                 /\ \E i \in DOMAIN log[w] :
                      /\ log[w][i].ev = "research_ok"
                      /\ RecordOf(w).deep_research = log[w][i].arg
                 /\ RecordOf(w).deep_research # None
C7_Witness ==
    \E w \in Workers :
        /\ Holding(w) /\ Finished(w) /\ RecordOf(w).status = "succeeded"
        /\ Val(plan[w]).deep_research_prompt = Some("q")
        /\ Val(RecordOf(w).deep_research).research_summary = "r1"

\* C8: within one job the stages run in sequence: no research call starts
\* before planning, its repair round-trip included, has returned a plan, and
\* no commit call starts before research has returned or been skipped.
C8_StagesInSequence ==
    \A w \in Workers :
        \A i \in DOMAIN log[w] :
            /\ log[w][i].ev = "research_start" =>
                 /\ \E k \in 1..(i - 1) : log[w][k].ev = "plan_ok"
                 /\ \A k \in (i + 1)..Len(log[w]) :
                      log[w][k].ev \notin {"plan_start", "repair", "plan_ok", "plan_err"}
            /\ log[w][i].ev = "commit_start" =>
                 /\ \E k \in 1..(i - 1) : log[w][k].ev = "plan_ok"
                 /\ \E k \in 1..(i - 1) : log[w][k].ev \in {"research_ok", "research_skipped"}
                 /\ \A k \in (i + 1)..Len(log[w]) :
                      log[w][k].ev \in {"commit_ok", "commit_err", "record_err"}
C8_Witness ==
    \E w \in Workers :
        /\ Len(log[w]) >= 6
        /\ [i \in 1..6 |-> log[w][i].ev] =
              <<"plan_start", "repair", "plan_ok", "research_start", "research_ok",
                "commit_start">>

\* ------------------------------------------- the retry policy on its own
\* What one call of fn may do: return, or raise one of these.
RetryOutcomes ==
    {None, Some(HTTPStatusError(500)), Some(HTTPStatusError(503)),
     Some(HTTPStatusError(400)), Some(HTTPStatusError(499)), Some(ConnectError),
     Some(TimeoutException), Some(ReadError), Some(StageBValueError)}

\* retry_sync or retry_async called with any max_retries, base_delay and
\* behaviour of fn.
RetryInit ==
    /\ MainInit
    /\ \E max_retries \in 0..MaxRetries, base_delay \in 1..MaxBaseDelay :
         \E outs \in [0..max_retries -> RetryOutcomes], mode \in {"sync", "async"} :
            rt = RetryStart(mode, outs, max_retries, base_delay)
    /\ ex = ExtractIdle /\ fifo = FifoIdle /\ store = StoreIdle

\* One pass through the loop body of the function that was called.
RetryStep ==
    /\ rt.state = "run"
    /\ rt' = IF rt.mode = "sync" THEN retry_sync_iter(rt) ELSE retry_async_iter(rt)
    /\ UNCHANGED <<main, ex, fifo, store>>

RetryNext == RetryStep

SpecRetry == RetryInit /\ [][RetryNext]_vars

RetryEnded == rt.state \in {"returned", "raised"}

\* Every attempt of fn raises a transient error.
AlwaysTransient ==
    \A k \in DOMAIN rt.outs :
        rt.outs[k] \in {Some(ConnectError), Some(TimeoutException),
                        Some(HTTPStatusError(503))}

\* C9: under retry_sync and under retry_async, an operation that always
\* raises a transient error (a connect error, a timeout or a 503 reply) is
\* attempted exactly max_retries + 1 times, the error of the last attempt is
\* raised, and the sleeps are b, 2b, 4b, ...: the sleep after failed attempt
\* k (counting from 0) is b * 2^k.
C9_RetryExhaustion ==
    (RetryEnded /\ AlwaysTransient) =>
        /\ rt.state = "raised"
        /\ rt.calls = rt.max_retries + 1
        /\ rt.exc = rt.outs[rt.max_retries]
        /\ rt.sleeps = [k \in 1..rt.max_retries |-> rt.base_delay * 2 ^ (k - 1)]
C9_Witness ==
    /\ RetryEnded /\ AlwaysTransient
    /\ rt.max_retries = 2 /\ rt.base_delay = 2
    /\ rt.calls = 3 /\ rt.sleeps = <<2, 4>>

\* The errors the claim calls permanent, stated apart from the classifier.
PermanentError(e) ==
    \/ e.type = "httpx.HTTPStatusError" /\ e.status < 500
    \/ e.type \notin {"httpx.HTTPStatusError", "httpx.ConnectError",
                      "httpx.TimeoutException", "httpx.ReadError"}
\* Attempt k is made and raises: every attempt before it raised a transient
\* error.
FirstRaise(k) ==
    /\ k \in DOMAIN rt.outs
    /\ rt.outs[k] # None
    /\ \A i \in 0..(k - 1) : rt.outs[i] # None /\ ~PermanentError(Val(rt.outs[i]))

\* C10: under either function, an attempt that raises a permanent error (an
\* HTTP status error with a status below 500, or an error that is no httpx
\* transport error) ends the call at once: that error is raised, no sleep
\* follows it and no further attempt is made, so a permanent error on the
\* first attempt gives exactly one attempt; an HTTP status error with status
\* >= 500 is retried while attempts remain.
C10_PermanentNotRetried ==
    RetryEnded =>
        \A k \in DOMAIN rt.outs :
            /\ (FirstRaise(k) /\ PermanentError(Val(rt.outs[k]))) =>
                   /\ rt.state = "raised" /\ rt.exc = rt.outs[k]
                   /\ rt.calls = k + 1
                   /\ Len(rt.sleeps) = k
            /\ (FirstRaise(k) /\ k < rt.max_retries
                /\ Val(rt.outs[k]).type = "httpx.HTTPStatusError"
                /\ Val(rt.outs[k]).status >= 500) =>
                   /\ rt.calls > k + 1
                   /\ Len(rt.sleeps) > k
C10_Witness ==
    /\ RetryEnded
    /\ rt.max_retries = 2
    /\ rt.outs[0] = Some(HTTPStatusError(400))
    /\ rt.calls = 1 /\ rt.sleeps = <<>> /\ rt.state = "raised"

\* ------------------------------------- the retry policy at the call sites
\* What the OpenAI client raises for a timeout and for a 5xx reply: classes
\* of the openai package, like the connection error above.
APITimeoutError == Exc("openai.APITimeoutError", 0, "Request timed out.")
InternalServerError == Exc("openai.InternalServerError", 503, "Error code: 503")

\* The three call sites of retry_sync: run_stage_a_sync, run_stage_b_sync
\* and create_page.
Sites == {"planning", "research", "commit"}

\* Outcomes of one request at a site: it returns, or the collaborator fails
\* with a connection failure, a timeout or a 5xx reply, raised as the
\* site's client library raises it.
SiteOutcomes(site) ==
    IF site = "commit"
    THEN {None, Some(ConnectError), Some(TimeoutException), Some(HTTPStatusError(503))}
    ELSE {None, Some(APIConnectionError), Some(APITimeoutError), Some(InternalServerError)}

\* retry_sync as a site calls it: max_retries=2, the default base_delay and
\* the default classifier.
StageCallInit ==
    /\ MainInit
    /\ \E site \in Sites :
         \E outs \in [0..StageMaxRetries -> SiteOutcomes(site)] :
            rt = [site |-> site] @@ RetryStart("sync", outs, StageMaxRetries, DefaultBaseDelay)
    /\ ex = ExtractIdle /\ fifo = FifoIdle /\ store = StoreIdle

StageCallNext == RetryStep

SpecStageCall == StageCallInit /\ [][StageCallNext]_vars

\* A failure the retry policy is meant for: no connection, a timeout, or a
\* 5xx reply, whichever library reports it.
TransientFailure(e) ==
    \/ e.type \in {"httpx.ConnectError", "httpx.TimeoutException",
                   "openai.APIConnectionError", "openai.APITimeoutError"}
    \/ e.status >= 500

\* C11: at every call site (planning, research, commit), a request that
\* fails with a transient failure while attempts remain is classified
\* transient and followed by another attempt.
C11_TransientRetriedAtEverySite ==
    RetryEnded =>
        \A k \in 0..(rt.max_retries - 1) :
            (k < rt.calls /\ rt.outs[k] # None /\ TransientFailure(Val(rt.outs[k])))
                => rt.calls > k + 1

\* ------------------------------------------------- generative-output repair
\* A repair request was issued after the stage whose start event is ev began.
RepairedAfter(w, ev) ==
    \E i, k \in DOMAIN log[w] :
        i < k /\ log[w][i].ev = ev /\ log[w][k].ev = "repair"

\* C12: a stage that consumes generative output (planning, research) issues
\* at most one repair request per invocation, and never fails on unparsable
\* output without having issued that one repair request.
C12_OneRepairBeforeParseFailure ==
    \A w \in Workers :
        /\ Count(w, "repair") <= 1
        /\ exc[w] = Some(StageAValueError) => RepairedAfter(w, "plan_start")
        /\ exc[w] = Some(StageBValueError) => RepairedAfter(w, "research_start")

\* ------------------------------------------------ JSON extraction from text
\* A text is a sequence of tokens: the braces, a fence (three backticks,
\* with the tag json when it opens a block), white space, "a" for material
\* that is valid inside a JSON object, and "!" for material that is not.
Pieces ==
    { <<"{">>, <<"}">>, <<"F">>, <<" ">>, <<"a">>, <<"!">>,
      <<"{", "}">>, <<"{", "a", "}">> }

RECURSIVE Flatten(_)
Flatten(ps) == IF ps = <<>> THEN <<>> ELSE Head(ps) \o Flatten(Tail(ps))

Min(S) == CHOOSE x \in S : \A y \in S : x <= y
Max(S) == CHOOSE x \in S : \A y \in S : x >= y

\* str.strip(): the text without its leading and trailing white space.
strip(s) ==
    LET idx == {i \in 1..Len(s) : s[i] # " "}
    IN IF idx = {} THEN <<>> ELSE SubSeq(s, Min(idx), Max(idx))

\* Opening minus closing braces among s[from..to].
Depth(s, from, to) ==
    Cardinality({k \in from..to : s[k] = "{"}) - Cardinality({k \in from..to : s[k] = "}"})

\* json.loads: the value of a text that is one JSON object (white space
\* around and inside it is not part of the value), None where it raises
\* JSONDecodeError.
json_loads(s) ==
    LET t == strip(s)
        ok == /\ Len(t) >= 2
              /\ t[1] = "{"
              /\ \A i \in 1..Len(t) : t[i] \in {"{", "}", "a", " "}
              /\ \A i \in 1..(Len(t) - 1) : Depth(t, 1, i) >= 1
              /\ Depth(t, 1, Len(t)) = 0
    IN IF ok THEN Some(SelectSeq(t, LAMBDA c : c # " ")) ELSE None

\* \s* from position i: the first position at or after i that holds no
\* white space (Len(s) + 1 when there is none).
RECURSIVE SkipSpace(_, _)
SkipSpace(s, i) == IF i <= Len(s) /\ s[i] = " " THEN SkipSpace(s, i + 1) ELSE i

\* utils.py line 50 tried at position p: a fence, white space, then from a
\* "{" lazily up to the first "}" that white space and a fence follow.
BlockMatchAt(s, p) ==
    IF s[p] # "F" THEN None
    ELSE LET b == SkipSpace(s, p + 1) IN
         IF b > Len(s) \/ s[b] # "{" THEN None
         ELSE LET ends == {q \in (b + 1)..Len(s) :
                             /\ s[q] = "}"
                             /\ SkipSpace(s, q + 1) <= Len(s)
                             /\ s[SkipSpace(s, q + 1)] = "F"}
              IN IF ends = {} THEN None ELSE Some(SubSeq(s, b, Min(ends)))

\* re.search of the fenced-block pattern: group 1 of the leftmost match.
re_search_block(s) ==
    LET ps == {p \in 1..Len(s) : BlockMatchAt(s, p) # None}
    IN IF ps = {} THEN None ELSE BlockMatchAt(s, Min(ps))

\* utils.py line 58 from an opening brace: text without braces, groups
\* "{...}" without braces inside, then the closing brace. The position of the
\* closing brace, 0 when the pattern does not match from there.
RECURSIVE BraceScan(_, _, _)
BraceScan(s, pos, depth) ==
    IF pos > Len(s) THEN 0
    ELSE IF s[pos] = "{" THEN (IF depth = 1 THEN BraceScan(s, pos + 1, 2) ELSE 0)
    ELSE IF s[pos] = "}" THEN (IF depth = 1 THEN pos ELSE BraceScan(s, pos + 1, depth - 1))
    ELSE BraceScan(s, pos + 1, depth)

\* re.search of the brace pattern: the leftmost match.
re_search_brace(s) ==
    LET is == {i \in 1..Len(s) : s[i] = "{" /\ BraceScan(s, i + 1, 1) # 0}
    IN IF is = {} THEN None
       ELSE Some(SubSeq(s, Min(is), BraceScan(s, Min(is) + 1, 1)))

\* Variant: the brace search run before the fenced-block search.
ExtractBraceFirst(raw) ==
    LET t == strip(raw)
        whole == json_loads(t)
        m2 == re_search_brace(t)
        brace == IF m2 # None THEN json_loads(Val(m2)) ELSE None
        m3 == re_search_block(t)
        block == IF m3 # None THEN json_loads(Val(m3)) ELSE None
    IN IF whole # None THEN [result |-> whole, tried |-> <<"whole">>]
       ELSE IF brace # None THEN [result |-> brace, tried |-> <<"whole", "brace">>]
       ELSE [result |-> block, tried |-> <<"whole", "brace", "block">>]

\* utils.py extract_json_from_text on a text of tokens: the value returned
\* and the strategies that were run.
extract_json_from_tokens(raw) ==
    LET t == strip(raw)
        whole == json_loads(t)
        m2 == re_search_block(t)
        block == IF m2 # None THEN json_loads(Val(m2)) ELSE None
        m3 == re_search_brace(t)
        brace == IF m3 # None THEN json_loads(Val(m3)) ELSE None
    IN IF whole # None THEN [result |-> whole, tried |-> <<"whole">>]
       ELSE IF block # None THEN [result |-> block, tried |-> <<"whole", "block">>]
       ELSE [result |-> brace, tried |-> <<"whole", "block", "brace">>]

\* extract_json_from_text called on any text of at most MaxPieces pieces.
ExtractInit ==
    /\ MainInit
    /\ rt = RetryIdle /\ fifo = FifoIdle /\ store = StoreIdle
    /\ \E n \in 0..MaxPieces :
         \E ps \in [1..n -> Pieces] :
            ex = [state |-> "called", raw |-> Flatten(ps)]

ExtractStep ==
    /\ ex.state = "called"
    /\ ex' = [state |-> "returned", raw |-> ex.raw] @@ extract_json_from_tokens(ex.raw)
    /\ UNCHANGED <<main, rt, fifo, store>>

ExtractNext == ExtractStep

SpecExtract == ExtractInit /\ [][ExtractNext]_vars

\* The content of the first fenced code block of s: what lies between the
\* first fence and the fence after it.
FirstFencedBlock(s) ==
    LET fs == {i \in 1..Len(s) : s[i] = "F"} IN
    IF Cardinality(fs) < 2 THEN None
    ELSE LET f1 == Min(fs) IN Some(SubSeq(s, f1 + 1, Min(fs \ {f1}) - 1))

\* s[i..j] is one brace-delimited group, balanced, with at most one level of
\* nesting.
BraceGroup(s, i, j) ==
    /\ i < j /\ s[i] = "{" /\ s[j] = "}"
    /\ \A k \in i..(j - 1) : Depth(s, i, k) \in {1, 2}
    /\ Depth(s, i, j) = 0

\* The first such group of s.
FirstBraceGroup(s) ==
    LET gs == {g \in (1..Len(s)) \X (1..Len(s)) : BraceGroup(s, g[1], g[2])} IN
    IF gs = {} THEN None
    ELSE LET g == CHOOSE g \in gs : \A h \in gs : g[1] <= h[1]
         IN Some(SubSeq(s, g[1], g[2]))

\* The first success among: the whole text, then block, then the first
\* brace group.
FirstSuccess(s, block) ==
    LET whole == json_loads(strip(s))
        second == IF block # None THEN json_loads(Val(block)) ELSE None
        group == FirstBraceGroup(strip(s))
        third == IF group # None THEN json_loads(Val(group)) ELSE None
    IN IF whole # None THEN [result |-> whole, tried |-> <<"whole">>]
       ELSE IF second # None THEN [result |-> second, tried |-> <<"whole", "block">>]
       ELSE [result |-> third, tried |-> <<"whole", "block", "brace">>]

FenceMatch(s, p, b, q) ==
    /\ p < b /\ b < q
    /\ s[p] = "F" /\ s[b] = "{" /\ s[q] = "}"
    /\ \A k \in (p + 1)..(b - 1) : s[k] = " "
    /\ \E e \in (q + 1)..Len(s) :
         /\ s[e] = "F"
         /\ \A k \in (q + 1)..(e - 1) : s[k] = " "

\* The text the first such match captures: the leftmost fence that has a
\* match, and from its brace the nearest closing brace that completes one.
FirstFenceMatch(s) ==
    LET D == 1..Len(s)
        ms == {m \in D \X D \X D : FenceMatch(s, m[1], m[2], m[3])}
    IN IF ms = {} THEN None
       ELSE LET m == CHOOSE m \in ms :
                        \A h \in ms : m[1] < h[1] \/ (m[1] = h[1] /\ m[3] <= h[3])
            IN Some(SubSeq(s, m[2], m[3]))

InFlight == {"set_running", "stage_a", "repair", "stage_b", "commit",
             "set_succeeded", "set_failed"}

\* This step kills worker w while its job is in flight.
CrashInFlight(w) == pc[w] \in InFlight /\ pc'[w] = "crashed"

\* Job j was popped and no worker holds it any more.
Orphan(j) ==
    /\ deliveries[j] >= 1
    /\ \A w \in Workers : ~(Holding(w) /\ JobOf(w) = j)

\* An orphaned job is never delivered again and its record never changes.
OrphanStays ==
    \A j \in JobIds :
        Orphan(j) =>
            /\ deliveries'[j] = deliveries[j]
            /\ status'[j] = status[j]
            /\ \A i \in DOMAIN queue' : queue'[i].job_id # j

\* C14 as stated: a worker that crashes after blpop_job removed a message
\* and before the terminal write leaves the job's record Running, and from
\* then on the message is never delivered again and the record stays.
C14_CrashLeavesRunning ==
    [][/\ \A w \in Workers :
            CrashInFlight(w) => Val(status'[JobOf(w)]).status = "running"
       /\ OrphanStays]_vars

\* C14 (amended): such a crash leaves the job's record as it was, Queued
\* when the crash comes before the Running write of worker.py line 58 and
\* Running after it, and from then on the message is never delivered again
\* and the record stays.
C14_CrashLeavesRecord ==
    [][/\ \A w \in Workers :
            CrashInFlight(w) =>
                /\ status'[JobOf(w)] = status[JobOf(w)]
                /\ Val(status[JobOf(w)]).status =
                       IF pc[w] = "set_running" THEN "queued" ELSE "running"
       /\ OrphanStays]_vars
C14_Witness ==
    \E w, v \in Workers, j \in JobIds :
        /\ pc[w] = "crashed" /\ Alive(v) /\ ~Holding(v)
        /\ deliveries[j] = 1 /\ queue = <<>>
        /\ Val(status[j]).status = "queued"
        /\ \A k \in JobIds \ {j} : deliveries[k] = 0 /\ status[k] = None

\* -------------------------------------------------------------- shutdown
\* C15: shutdown is cooperative. The step that sets a worker's flag leaves
\* its position and its job alone; with the flag set, a job in flight still
\* ends its iteration with a Succeeded or Failed record; the loop is left
\* only from its top, with the flag set; and once the flag is seen there the
\* worker stops and starts no further pop.
C15_CooperativeShutdown ==
    [][\A w \in Workers :
          /\ (shutdown'[w] /\ ~shutdown[w]) => (pc'[w] = pc[w] /\ cur'[w] = cur[w])
          /\ (shutdown[w] /\ Finished(w)) =>
                 /\ Last(writes[JobOf(w)]) \in {"succeeded", "failed"}
                 /\ RecordOf(w).status = Last(writes[JobOf(w)])
          /\ (pc'[w] = "stopped" /\ pc[w] # "stopped") => (pc[w] = "top" /\ shutdown[w])
          /\ (pc[w] = "top" /\ shutdown[w]) => pc'[w] \in {"top", "stopped", "crashed"}
          /\ pc[w] = "stopped" => (pc'[w] = "stopped" /\ cur'[w] = None)]_vars
C15_Witness ==
    \E w \in Workers :
        /\ shutdown[w] /\ Holding(w) /\ Finished(w)
        /\ RecordOf(w).status = "succeeded"

\* ------------------------------------------------------- the queue on its own
\* Any sequence of enqueue_job calls, the same job id more than once
\* included, against pops by any worker.
QueueInit ==
    /\ MainInit
    /\ rt = RetryIdle /\ ex = ExtractIdle /\ store = StoreIdle
    /\ fifo = [pushed |-> <<>>, popped |-> <<>>]

\* redis_queue.py enqueue_job called with any job id and payload.
QueuePush ==
    /\ Len(fifo.pushed) < MaxPushes
    /\ \E job_id \in JobIds, payload \in Payloads :
         /\ queue' = enqueue_job(queue, job_id, payload)
         /\ fifo' = [fifo EXCEPT !.pushed =
                        Append(@, [job_id |-> job_id, payload |-> payload])]
    /\ UNCHANGED <<nextJob, req, status, pc, shutdown, cur, locals, log, writes,
                   deliveries, rt, ex, store>>

\* redis_queue.py blpop_job called by worker w on a non-empty list: the
\* (job_id, payload) of the head message is returned.
QueuePop(w) ==
    /\ queue # <<>>
    /\ queue' = BlpopRest(queue)
    /\ fifo' = [fifo EXCEPT !.popped =
                   Append(@, [by |-> w, job_id |-> Head(queue).job_id,
                              payload |-> Head(queue).payload])]
    /\ UNCHANGED <<nextJob, req, status, pc, shutdown, cur, locals, log, writes,
                   deliveries, rt, ex, store>>

QueueNext ==
    \/ QueuePush
    \/ \E w \in Workers : QueuePop(w)

SpecQueue == QueueInit /\ [][QueueNext]_vars

\* The message a pop returned.
Returned(r) == [job_id |-> r.job_id, payload |-> r.payload]

\* C16: the queue is FIFO without deduplication: the messages returned by
\* the pops of all workers, in the order of the pops, are the messages
\* pushed, in the order of the pushes, and what is still queued is the rest
\* in the same order; a message pushed twice is held, and returned, twice.
C16_FifoNoDedup ==
    /\ Len(fifo.popped) <= Len(fifo.pushed)
    /\ \A i \in DOMAIN fifo.popped : Returned(fifo.popped[i]) = fifo.pushed[i]
    /\ queue = SubSeq(fifo.pushed, Len(fifo.popped) + 1, Len(fifo.pushed))
C16_Witness ==
    /\ Len(fifo.pushed) = 3 /\ Len(fifo.popped) = 3 /\ queue = <<>>
    /\ fifo.pushed[1].job_id = 1 /\ fifo.pushed[2].job_id = 2
    /\ fifo.pushed[3].job_id = 1
    /\ fifo.popped[1].by # fifo.popped[3].by

\* ------------------------------------------------ the status store on its own
\* json.dumps of a status record and json.loads of what was stored.
json_dumps(d) == <<"json", d>>
json_loads_record(data) == data[2]

\* Variant: a write that keeps the expiry of a key that is still alive.
SetKeepTtl(keys, now, job_id, status_data, ttl) ==
    [keys EXCEPT ![job_id] =
        Some([data |-> json_dumps(status_data),
              expire_at |-> IF @ # None /\ now < Val(@).expire_at
                            THEN Val(@).expire_at ELSE now + ttl])]

\* redis_queue.py set_job_status_sync (and set_job_status): SET key data EX
\* ttl at instant now. The key holds the new data and expires ttl later.
set_job_status_sync(keys, now, job_id, status_data, ttl) ==
    [keys EXCEPT ![job_id] =
        Some([data |-> json_dumps(status_data), expire_at |-> now + ttl])]

\* redis_queue.py get_job_status_sync (and get_job_status): GET key at
\* instant now; an expired key is gone.
get_job_status_sync(keys, now, job_id) ==
    LET raw == IF keys[job_id] # None /\ now < Val(keys[job_id]).expire_at
               THEN Some(Val(keys[job_id]).data) ELSE None
    IN IF raw = None THEN None ELSE Some(json_loads_record(Val(raw)))

\* The records the submission surface, the worker and the pipeline write.
StatusWrites ==
    {queued_status(p) : p \in Payloads} \cup {running_status(p) : p \in Payloads}
    \cup {failed_status(StageAValueError)}

StoreInit ==
    /\ MainInit
    /\ rt = RetryIdle /\ ex = ExtractIdle /\ fifo = FifoIdle
    /\ store = [now |-> 0,
                keys |-> [j \in JobIds |-> None],
                last |-> [j \in JobIds |-> None],
                reply |-> None]

\* A status write: every call site passes ttl=JOB_TTL_SECONDS, whatever the
\* environment sets it to.
StoreSetStatus ==
    /\ \E job_id \in JobIds, status_data \in StatusWrites, ttl \in 1..MaxTtl :
         store' = [store EXCEPT
            !.keys = set_job_status_sync(@, store.now, job_id, status_data, ttl),
            !.last[job_id] = Some([record |-> status_data, at |-> store.now, ttl |-> ttl]),
            !.reply = None]
    /\ UNCHANGED <<main, rt, ex, fifo>>

\* A status read.
StoreGetStatus ==
    /\ \E job_id \in JobIds :
         store' = [store EXCEPT
            !.reply = Some([job_id |-> job_id, at |-> store.now,
                            result |-> get_job_status_sync(store.keys, store.now, job_id)])]
    /\ UNCHANGED <<main, rt, ex, fifo>>

\* Time passes.
StoreTick ==
    /\ store.now < MaxClock
    /\ store' = [store EXCEPT !.now = @ + 1]
    /\ UNCHANGED <<main, rt, ex, fifo>>

StoreNext ==
    \/ StoreSetStatus
    \/ StoreGetStatus
    \/ StoreTick

SpecStore == StoreInit /\ [][StoreNext]_vars

\* C17: a get returns the record of the most recent set for the job id when
\* the ttl given to that set has not elapsed, and not-found otherwise (no
\* set, or ttl elapsed): every set replaces the whole record and restarts
\* the timer; and every key written carries an expiry.
C17_StoreSemantics ==
    /\ store.reply # None =>
         LET r == Val(store.reply)
             h == store.last[r.job_id]
         IN r.result = IF h # None /\ r.at < Val(h).at + Val(h).ttl
                       THEN Some(Val(h).record) ELSE None
    /\ \A j \in JobIds :
         store.keys[j] # None =>
             Val(store.keys[j]).expire_at = Val(store.last[j]).at + Val(store.last[j]).ttl
C17_Witness ==
    /\ store.reply # None
    /\ Val(store.reply).at = 2
    /\ Val(store.reply).result = Some(running_status(CHOOSE p \in Payloads : TRUE))
    /\ Val(store.last[Val(store.reply).job_id]).at = 1
    /\ store.now = 3
    /\ get_job_status_sync(store.keys, store.now, Val(store.reply).job_id) = None

\* ------------------------------------------------------------ merge policy
\* The value the stage event ev of w's job returned (None: no such event).
ReturnedBy(w, ev) ==
    IF LogHas(w, ev)
    THEN log[w][CHOOSE i \in DOMAIN log[w] : log[w][i].ev = ev].arg
    ELSE None

\* C18: the Succeeded record of a job embeds the plan that job's planning
\* stage returned, the output that job's research stage returned or null
\* when it did not run, and the page_id and page_url that job's commit
\* stage returned, whatever the other worker is doing with another job.
C18_MergeOwnResults ==
    \A w \in Workers :
        (Holding(w) /\ Finished(w) /\ RecordOf(w).status = "succeeded") =>
            /\ Some(RecordOf(w).plan) = ReturnedBy(w, "plan_ok")
            /\ RecordOf(w).deep_research = ReturnedBy(w, "research_ok")
            /\ Some(RecordOf(w).notion) = ReturnedBy(w, "commit_ok")
C18_Witness ==
    \E w, v \in Workers :
        /\ w # v
        /\ Holding(w) /\ Finished(w) /\ RecordOf(w).status = "succeeded"
        /\ Holding(v) /\ Finished(v) /\ RecordOf(v).status = "succeeded"
        /\ RecordOf(w).deep_research # None /\ RecordOf(v).deep_research = None
        /\ RecordOf(w).plan # RecordOf(v).plan
        /\ RecordOf(w).notion # RecordOf(v).notion

\* ------------------------------------------------------- error propagation
ErrorEvents == {"plan_err", "research_err", "commit_err", "record_err"}

\* C19: every plan the planning stage returns with need_deep_research true
\* carries a non-empty research question.
C19_FlagImpliesPrompt ==
    \A w \in Workers :
        (plan[w] # None /\ Val(plan[w]).need_deep_research) =>
            Truthy(Val(plan[w]).deep_research_prompt)

\* C20: the error a stage of run_pipeline raised is the error caught in the
\* worker loop, unchanged; no Failed record exists for a job while
\* run_pipeline runs for it, so the except block of the worker loop is the
\* only writer; and the Failed record's error field is that error's text.
C20_ErrorsReachWorkerLoop ==
    \A w \in Workers :
        /\ pc[w] \in InFlight =>
               \A i \in DOMAIN writes[JobOf(w)] : writes[JobOf(w)][i] # "failed"
        /\ pc[w] = "set_failed" =>
               /\ Last(log[w]).ev \in ErrorEvents
               /\ exc[w] = Last(log[w]).arg
        /\ (Finished(w) /\ RecordOf(w).status = "failed") =>
               /\ Last(log[w]).ev \in ErrorEvents
               /\ RecordOf(w).error = StrOf(Val(Last(log[w]).arg))
               /\ DOMAIN RecordOf(w) = {"status", "finished_at", "error"}
C20_Witness ==
    \E w \in Workers :
        /\ Holding(w) /\ Finished(w) /\ RecordOf(w).status = "failed"
        /\ Last(log[w]) = Event("research_err", Some(ValidationError))
        /\ RecordOf(w).error = StrOf(ValidationError)

\* ------------------------------------- retry_sync and retry_async together
\* What one call of fn may do when both functions are given the same fn.
PairOutcomes ==
    {None, Some(HTTPStatusError(503)), Some(HTTPStatusError(400)),
     Some(ConnectError), Some(StageBValueError)}
Classifiers == {"is_transient_error", "always", "never"}

\* retry_sync and retry_async called with the same max_retries, base_delay,
\* classifier and behaviour of fn; each runs at its own pace.
PairInit ==
    /\ MainInit
    /\ \E max_retries \in 0..MaxRetries, base_delay \in 1..MaxBaseDelay :
         \E outs \in [0..max_retries -> PairOutcomes], c \in Classifiers :
            rt = [state |-> "pair",
                  sync |-> [classifier |-> c]
                           @@ RetryStart("sync", outs, max_retries, base_delay),
                  async |-> [classifier |-> c]
                            @@ RetryStart("async", outs, max_retries, base_delay)]
    /\ ex = ExtractIdle /\ fifo = FifoIdle /\ store = StoreIdle

PairSyncStep ==
    /\ rt.state = "pair" /\ rt.sync.state = "run"
    /\ rt' = [rt EXCEPT !.sync = retry_sync_iter(@)]
    /\ UNCHANGED <<main, ex, fifo, store>>

PairAsyncStep ==
    /\ rt.state = "pair" /\ rt.async.state = "run"
    /\ rt' = [rt EXCEPT !.async = retry_async_iter(@)]
    /\ UNCHANGED <<main, ex, fifo, store>>

PairNext == PairSyncStep \/ PairAsyncStep

SpecRetryPair == PairInit /\ [][PairNext]_vars

PairEnded ==
    /\ rt.sync.state \in {"returned", "raised"}
    /\ rt.async.state \in {"returned", "raised"}

\* C21: given the same maximum retry count, base delay, classifier and
\* per-attempt outcomes, retry_sync and retry_async make the same number of
\* attempts, sleep the same sequence of delays, and end the same way: both
\* return, or both raise the same error. While they run, the one that has
\* made no more attempts has slept a prefix of the other's delays.
C21_SyncAsyncSameSemantics ==
    /\ PairEnded =>
         /\ rt.sync.calls = rt.async.calls
         /\ rt.sync.sleeps = rt.async.sleeps
         /\ rt.sync.state = rt.async.state
         /\ rt.sync.exc = rt.async.exc
    /\ rt.sync.calls = rt.async.calls =>
         /\ rt.sync.sleeps = rt.async.sleeps
         /\ rt.sync.state = rt.async.state
C21_Witness ==
    /\ PairEnded
    /\ rt.sync.classifier = "is_transient_error"
    /\ rt.sync.calls = 3 /\ rt.async.calls = 3
    /\ rt.sync.state = "raised" /\ rt.async.exc = Some(HTTPStatusError(400))
    /\ rt.async.sleeps = <<rt.async.base_delay, 2 * rt.async.base_delay>>

\* ------------------------------------------- submission against the workers
\* The job ids of the messages in the queue, or handed to a worker.
Pushed ==
    {queue[i].job_id : i \in DOMAIN queue} \cup {j \in JobIds : deliveries[j] > 0}

\* C22: capture_async writes the Queued record before it pushes the message,
\* so whatever the interleaving with the workers: a job whose message is in
\* the queue or was popped already has its Queued write; the first status
\* written under a job id is Queued, written over no earlier record, and no
\* Queued write follows a Running or terminal write; no Running write is made
\* under a job id that has had no Queued record.
C22_QueuedBeforeRunning ==
    \A j \in JobIds :
        /\ j \in Pushed => (writes[j] # <<>> /\ writes[j][1] = "queued")
        /\ \A i \in DOMAIN writes[j] :
             /\ writes[j][i] = "queued" => i = 1
             /\ writes[j][i] = "running" =>
                  \E k \in 1..(i - 1) : writes[j][k] = "queued"
C22_Witness ==
    \E j, k \in JobIds :
        /\ writes[j] = <<"queued", "running">>
        /\ \E r \in req : r.job_id = k
        /\ writes[k] = <<"queued">>

\* ------------------------------------------------ the writes of one message
\* The statuses the worker and run_pipeline have written for the message w
\* holds, in order (the Queued write is capture_async's).
WorkerWrites(w) == SelectSeq(writes[JobOf(w)], LAMBDA x : x # "queued")
Terminals(seq) == SelectSeq(seq, LAMBDA x : x \in {"succeeded", "failed"})
\* run_pipeline was invoked for the message w holds.
Processing(w) ==
    pc[w] \in {"stage_a", "repair", "stage_b", "commit", "set_succeeded",
               "set_failed", "end"}

MaxForeign == 2

\* Messages that are not what enqueue_job writes: text that is not JSON, a
\* JSON object lacking job_id, one lacking payload, and a JSON array.
ForeignMessages ==
    {[json |-> "invalid"], [json |-> "array"],
     [payload |-> [task_name |-> "n", task_content |-> "c"]]}
    \cup {[job_id |-> j] : j \in JobIds}

ForeignInit ==
    /\ MainInit
    /\ fifo = [state |-> "foreign", pushed |-> 0]
    /\ rt = RetryIdle /\ ex = ExtractIdle /\ store = StoreIdle

\* Another producer's RPUSH onto queue:jobs.
ForeignPush ==
    /\ fifo.pushed < MaxForeign
    /\ \E m \in ForeignMessages : queue' = Append(queue, m)
    /\ fifo' = [fifo EXCEPT !.pushed = @ + 1]
    /\ UNCHANGED <<nextJob, req, status, pc, shutdown, cur, locals, log, writes,
                   deliveries, rt, ex, store>>

\* The worker processes that run beside the other producer.
ForeignWorkers == {"w1"}

\* The steps of the program, with one worker process, and of the other
\* producer.
ForeignNext ==
    \/ CaptureAsyncSetQueued
    \/ CaptureAsyncEnqueue
    \/ ForeignPush
    \/ \E w \in ForeignWorkers : _handle_signal(w)
    \/ \E w \in ForeignWorkers : WorkerLoopTop(w)
    \/ \E w \in ForeignWorkers : blpop_job(w)
    \/ \E w \in ForeignWorkers : blpop_job_invalid(w)
    \/ \E w \in ForeignWorkers : WorkerSetRunning(w)
    \/ \E w \in ForeignWorkers : RunStageACall(w)
    \/ \E w \in ForeignWorkers : RunStageARepair(w)
    \/ \E w \in ForeignWorkers : RunStageB(w)
    \/ \E w \in ForeignWorkers : CreatePage(w)
    \/ \E w \in ForeignWorkers : SetSucceeded(w)
    \/ \E w \in ForeignWorkers : WorkerSetFailed(w)
    \/ \E w \in ForeignWorkers : WorkerLoopBack(w)
    \/ \E w \in ForeignWorkers : Crash(w)

SpecForeign == ForeignInit /\ [][ForeignNext]_vars

\* C24: a popped message that is malformed (not valid JSON, or lacking job_id
\* or payload) is removed from the queue and treated like a pop timeout: the
\* step in which a worker's pop takes it changes no status record, invokes no
\* pipeline (the worker holds no job and has run no stage), and leaves the
\* worker at the top of its loop, about to pop again.
C24_MalformedLikeTimeout ==
    [][\A w \in Workers :
          (/\ pc[w] = "blpop" /\ queue # <<>> /\ ~WellFormed(Head(queue))
           /\ pc'[w] \notin {"blpop", "crashed"}) =>
              /\ queue' = Tail(queue)
              /\ status' = status /\ writes' = writes
              /\ cur'[w] = None /\ log'[w] = <<>>
              /\ pc'[w] = "top"]_vars

\* ------------------------------------------------- workers that keep running
\* The steps of worker w's process: main() and the calls it makes.
WorkerStep(w) ==
    \/ WorkerLoopTop(w)
    \/ blpop_job(w)
    \/ WorkerSetRunning(w)
    \/ RunStageACall(w)
    \/ RunStageARepair(w)
    \/ RunStageB(w)
    \/ CreatePage(w)
    \/ SetSucceeded(w)
    \/ WorkerSetFailed(w)
    \/ WorkerLoopBack(w)

\* The program with no process killed: requests and signals arrive at any
\* time, and a worker process that can take a step takes one: the pop
\* returns within its timeout (redis_queue.py line 67), every remote call
\* returns or raises within its timeout budget and every backoff sleep ends.
LiveNext ==
    \/ CaptureAsyncSetQueued
    \/ CaptureAsyncEnqueue
    \/ \E w \in Workers : _handle_signal(w)
    \/ \E w \in Workers : WorkerStep(w)

SpecLive ==
    /\ Init
    /\ [][LiveNext]_vars
    /\ \A w \in Workers : WF_vars(WorkerStep(w))
    /\ WF_vars(CaptureAsyncEnqueue)

Terminal(j) == writes[j] # <<>> /\ Last(writes[j]) \in {"succeeded", "failed"}

\* C25: once a worker's shutdown flag is set, the worker eventually reaches
\* Stopped (the pop returning within its timeout and the pipeline call
\* terminating); with the flag set it starts no pop, so that it starts at
\* most one further job, the one a pop already blocking returns; and the job
\* it holds with the flag set is processed to its terminal record.
C25_ShutdownReachesStopped ==
    /\ \A w \in Workers : shutdown[w] ~> (pc[w] = "stopped")
    /\ \A w \in Workers : \A j \in JobIds :
         (shutdown[w] /\ Holding(w) /\ JobOf(w) = j) ~> Terminal(j)
    /\ [][\A w \in Workers :
            (shutdown[w] /\ pc'[w] = "blpop") => pc[w] = "blpop"]_vars

\* --------------------------------------------- run_stage_a_sync on its own
\* What the OpenAI client raises for a 400 reply.
BadRequestError == Exc("openai.BadRequestError", 400, "Error code: 400")

\* Outcomes of one repair request: it returns, or the client raises for a
\* connection failure, a timeout, a 5xx reply or a 4xx reply.
RepairOutcomes ==
    {None, Some(APIConnectionError), Some(APITimeoutError),
     Some(InternalServerError), Some(BadRequestError)}

\* One call of run_stage_a_sync: the planning call under retry_sync, the text
\* of its reply, what the collaborator would answer to the repair request and
\* to a request after it (reps), the text of the repair reply; the repair
\* requests made and the delays slept around them.
StageAStart(outs, t1, reps, t2) ==
    [state |-> "call",
     call |-> RetryStart("sync", outs, StageMaxRetries, DefaultBaseDelay),
     text |-> t1, reps |-> reps, repair_text |-> t2,
     repairs |-> 0, repair_sleeps |-> <<>>, exc |-> None, result |-> None]

\* openai_client.py lines 186-191: the planning call has ended; its error is
\* raised, or its text is parsed and the plan returned.
stage_a_parse(st) ==
    IF st.call.state = "raised"
    THEN [st EXCEPT !.state = "raised", !.exc = st.call.exc]
    ELSE IF _parse_stage_a(st.text) # None
    THEN [st EXCEPT !.state = "returned", !.result = _parse_stage_a(st.text)]
    ELSE [st EXCEPT !.state = "repair"]

\* Variant: a repair request that is made again, after a sleep, when it raises.
RepairRequestRetried(st) ==
    LET o == st.reps[st.repairs] IN
    IF o # None /\ st.repairs < 1
    THEN [st EXCEPT !.repairs = @ + 1,
                    !.repair_sleeps = Append(@, DefaultBaseDelay)]
    ELSE IF o # None
    THEN [st EXCEPT !.repairs = @ + 1, !.state = "raised", !.exc = o]
    ELSE IF _parse_stage_a(st.repair_text) # None
    THEN [st EXCEPT !.repairs = @ + 1, !.state = "returned",
                    !.result = _parse_stage_a(st.repair_text)]
    ELSE [st EXCEPT !.repairs = @ + 1, !.state = "raised",
                    !.exc = Some(StageAValueError)]
\* openai_client.py lines 193-205: the repair request, a direct call of
\* client.responses.create, and the parse of its text.
repair_request(st) ==
    LET o == st.reps[st.repairs] IN
    IF o # None
    THEN [st EXCEPT !.repairs = @ + 1, !.state = "raised", !.exc = o]
    ELSE IF _parse_stage_a(st.repair_text) # None
    THEN [st EXCEPT !.repairs = @ + 1, !.state = "returned",
                    !.result = _parse_stage_a(st.repair_text)]
    ELSE [st EXCEPT !.repairs = @ + 1, !.state = "raised",
                    !.exc = Some(StageAValueError)]

StageAInit ==
    /\ MainInit
    /\ \E outs \in [0..StageMaxRetries -> OpenAIOutcomes], t1 \in StageATexts :
         \E reps \in [0..1 -> RepairOutcomes], t2 \in StageATexts :
            rt = StageAStart(outs, t1, reps, t2)
    /\ ex = ExtractIdle /\ fifo = FifoIdle /\ store = StoreIdle

StageACallStep ==
    /\ rt.state = "call" /\ rt.call.state = "run"
    /\ rt' = [rt EXCEPT !.call = retry_sync_iter(@)]
    /\ UNCHANGED <<main, ex, fifo, store>>

StageAParseStep ==
    /\ rt.state = "call" /\ rt.call.state # "run"
    /\ rt' = stage_a_parse(rt)
    /\ UNCHANGED <<main, ex, fifo, store>>

StageARepairStep ==
    /\ rt.state = "repair"
    /\ rt' = repair_request(rt)
    /\ UNCHANGED <<main, ex, fifo, store>>

StageANext == StageACallStep \/ StageAParseStep \/ StageARepairStep

SpecStageA == StageAInit /\ [][StageANext]_vars

\* C26: the repair request of the planning stage is outside the retry
\* policy: it is made at most once, no backoff delay is slept for it, and
\* when it raises, whether for a connection failure, a timeout, a 5xx reply
\* or a 4xx reply, run_stage_a_sync has ended at once by raising that error.
C26_RepairOutsideRetry ==
    /\ rt.repairs <= 1
    /\ rt.repair_sleeps = <<>>
    /\ rt.repairs = 1 =>
         /\ rt.state \in {"returned", "raised"}
         /\ rt.reps[0] # None => (rt.state = "raised" /\ rt.exc = rt.reps[0])
         /\ rt.reps[0] = None => rt.exc \in {None, Some(StageAValueError)}
C26_Witness ==
    /\ rt.state = "raised" /\ rt.repairs = 1
    /\ rt.reps[0] = Some(APITimeoutError) /\ rt.reps[1] = None
    /\ rt.exc = Some(APITimeoutError)
    /\ rt.call.state = "returned" /\ rt.text = GarbageText

\* ------------------------------------------------------------ job lifecycle
\* The program with requests arriving and worker processes killed at any
\* time, none asked to shut down.
LifecycleNext ==
    \/ CaptureAsyncSetQueued
    \/ CaptureAsyncEnqueue
    \/ \E w \in Workers : WorkerStep(w)
    \/ \E w \in Workers : Crash(w)

\* A worker process that can take a step takes one: pops, remote calls and
\* backoff sleeps return.
SpecLifecycle ==
    /\ Init
    /\ [][LifecycleNext]_vars
    /\ \A w \in Workers : WF_vars(WorkerStep(w))

\* Worker w is running: not killed, not ended, not asked to shut down.
KeepsRunning(w) == Alive(w) /\ ~shutdown[w]
\* No status write of a worker or of run_pipeline has raised.
WritesSucceed ==
    \A w \in Workers : pc[w] # "raised" /\ ~LogHas(w, "record_err")
\* Job j was popped by a worker that was killed while holding it.
Abandoned(j) ==
    /\ Orphan(j) /\ ~Terminal(j)
    /\ \E w \in Workers : pc[w] = "crashed"

\* C27 as stated: if some worker keeps running and status writes succeed,
\* every job whose message was pushed is eventually popped and eventually
\* has a terminal Succeeded or Failed record.
C27_EveryJobTerminates ==
    ((\E w \in Workers : []KeepsRunning(w)) /\ []WritesSucceed) =>
        \A j \in JobIds : (j \in Pushed) ~> (deliveries[j] >= 1 /\ Terminal(j))

\* C27, amended: if some worker keeps running, status writes succeed and no
\* worker is killed while it holds a popped message, every job whose message
\* was pushed is eventually popped and eventually has a terminal Succeeded
\* or Failed record.
C27_EveryJobTerminatesUnlessAbandoned ==
    ((\E w \in Workers : []KeepsRunning(w)) /\ []WritesSucceed
        /\ [](\A j \in JobIds : ~Abandoned(j))) =>
        \A j \in JobIds : (j \in Pushed) ~> (deliveries[j] >= 1 /\ Terminal(j))
C27_Witness ==
    \E w, v \in Workers :
        /\ pc[w] = "crashed" /\ KeepsRunning(v) /\ WritesSucceed
        /\ \A j \in JobIds : j \in Pushed /\ Terminal(j) /\ deliveries[j] = 1
        /\ writes[1] = <<"queued", "running", "succeeded">>
        /\ writes[2] = <<"queued", "running", "failed">>

====
